---- MODULE Spec2Model ----
(***************************************************************************)
(* Motion Path Creator (src/CreateMotionPath.py).                          *)
(*                                                                         *)
(* The scene is a map from object handles to object records.  Each entry   *)
(* point of the add-on (the four sampling operators, the clean-up operator *)
(* and the depsgraph_update_post handler) is one action.  What an operator *)
(* reads from the ambient context -- the active object, the active pose    *)
(* bone, the vertex selection, the results of mode_set.poll() and the      *)
(* frame-range settings -- can be changed freely by the user between two   *)
(* calls, so each action draws it as an input.  The host calls the update  *)
(* handler after its own scene updates; it is an action that can be taken  *)
(* at any time between two calls.                                          *)
(*                                                                         *)
(* Lengths and scales are integers in thousandths (Unit = 1.0).            *)
(***************************************************************************)
EXTENDS Integers, Sequences, FiniteSets, TLC

VARIABLES
    objs,      \* the objects of the scene: handle -> object record
    cursor,    \* scene.frame_current
    mode,      \* the interaction mode of the host: "OBJECT" or "EDIT"
    shading,   \* the shading of the 3D viewport
    last,      \* history: what the last call did
    runs       \* history: successful sampling calls since the scene was last
               \* free of tagged objects (-1 once a clean-up left some behind)

vars == <<objs, cursor, mode, shading, last, runs>>

-----------------------------------------------------------------------------
(* Bounds of the model. *)

MaxFrame == 2
MaxPaths == 1
MaxVertex == 1

-----------------------------------------------------------------------------
(* Program constants. *)

FrameMin == 1
RadiusMin == 1
RadiusDefault == 200
RadiusMax == 1000
BaseRadius == 200

Unit == RadiusMax

Frames == FrameMin..MaxFrame
Verts == 0..MaxVertex
Radii == {RadiusMin, RadiusDefault}
NoObject == 0

icosphere_color == <<1000, 0, 600>>

-----------------------------------------------------------------------------
(* Python values that are tested for truth (is_vertex, is_bone, is_empty). *)

PyBool(b) == [t |-> "bool", n |-> IF b THEN 1 ELSE 0, s |-> ""]
PyInt(i) == [t |-> "int", n |-> i, s |-> ""]
PyStr(str) == [t |-> "str", n |-> IF str = "" THEN 0 ELSE 1, s |-> str]

Truthy(x) == x.n # 0

-----------------------------------------------------------------------------
(* Vectors and the world matrix (uniform scale s, translation t). *)

VecAdd(u, v) == <<u[1] + v[1], u[2] + v[2], u[3] + v[3]>>
VecScale(s, v) == <<(s * v[1]) \div Unit, (s * v[2]) \div Unit, (s * v[3]) \div Unit>>
MatMul(M, v) == VecAdd(VecScale(M.s, v), M.t)

Origin == <<0, 0, 0>>
DefaultPoint == <<0, 0, 0, 0>>

-----------------------------------------------------------------------------
(* Scene objects. *)

Obj(type, data) ==
    [type |-> type, sphere |-> FALSE, path |-> FALSE, parent |-> NoObject,
     location |-> Origin, scale |-> <<Unit, Unit, Unit>>, data |-> data,
     hide_render |-> FALSE, hide |-> FALSE, color |-> <<Unit, Unit, Unit, Unit>>,
     smooth |-> FALSE, radius |-> 0, in_scene |-> TRUE, points |-> <<>>]

Cube == 1
Empty == 2
Armature == 3
UserObjects == {Cube, Empty, Armature}

(* A fresh handle: the smallest one not in use. *)
FirstFree(used) ==
    LET free == (1..(Cardinality(used) + 1)) \ used
    IN  CHOOSE i \in free : \A j \in free : i <= j

NewId(os) == FirstFree(DOMAIN os)

DataIds(os) == {os[o].data : o \in DOMAIN os}

NewData(os) == FirstFree(DataIds(os))

Put(os, id, rec) == [o \in DOMAIN os \cup {id} |-> IF o = id THEN rec ELSE os[o]]

(* bpy.data.objects.remove(obj, do_unlink=True): the object leaves the scene
   and the host clears every parent pointer that referred to it. *)
RemoveObjects(os, ids) ==
    [o \in DOMAIN os \ ids |->
        IF os[o].parent \in ids THEN [os[o] EXCEPT !.parent = NoObject] ELSE os[o]]

(* The animation of the user's objects: evaluated at the frame cursor. *)
AnimatedTranslation(o, frame) ==
    CASE o = Cube -> <<frame * Unit, 0, 0>>
      [] o = Empty -> <<0, frame * Unit, 0>>
      [] o = Armature -> <<0, 0, frame * Unit>>

(* obj.matrix_world under the pose evaluated for frame `frame`.  Generated
   objects are not animated; their parent (a path) sits at the origin. *)
matrix_world(os, o, frame) ==
    [s |-> os[o].scale[1],
     t |-> IF o \in UserObjects THEN AnimatedTranslation(o, frame) ELSE os[o].location]

(* obj.data.vertices[v].co and obj.pose.bones[name].head, in local space. *)
VertexCo(v) == <<(v + 1) * Unit, Unit, 0>>
BoneHead(frame) == <<Unit, 0, frame * Unit>>

IsSphere(os, o) == os[o].sphere
Spheres(os) == {o \in DOMAIN os : IsSphere(os, o)}
Paths(os) == {o \in DOMAIN os : os[o].path}

-----------------------------------------------------------------------------
(* get_frame_range: the timeline bounds or the explicit settings. *)

get_frame_range(ctx) ==
    IF ctx.use_timeline
    THEN <<ctx.frame_start, ctx.frame_end>>
    ELSE <<ctx.start_frame, ctx.end_frame>>

(* The range inputs.  The scene's timeline spans all frames of the model; the
   explicit settings are each only bounded below (min=1), in either order.
   While use_timeline is set the explicit pair is left at FrameMin. *)
RangeInputs ==
    {c \in [use_timeline : BOOLEAN, frame_start : {FrameMin}, frame_end : {MaxFrame},
            start_frame : Frames, end_frame : Frames] :
        c.use_timeline => (c.start_frame = FrameMin /\ c.end_frame = FrameMin)}

-----------------------------------------------------------------------------
(* create_base_icosphere: a new mesh object, tagged, hidden from render,
   coloured, shaded smooth.  The radius argument is not used by the code. *)

create_base_icosphere(os, radius, color) ==
    LET id == NewId(os)
        base_sphere ==
            [Obj("MESH", NewData(os)) EXCEPT
                !.radius = BaseRadius,
                !.sphere = TRUE,
                !.hide_render = TRUE,
                !.color = <<color[1], color[2], color[3], Unit>>,
                !.smooth = TRUE]
    IN  [objs |-> Put(os, id, base_sphere), base |-> id]

(* Faulty variant: the point that a new spline already holds is not counted. *)
PolylineSizeNoFirstPoint(start_frame, end_frame) ==
    IF end_frame - start_frame < 0 THEN 0 ELSE end_frame - start_frame

(* splines.new('POLY') holds one point; points.add(count) adds count points,
   the count being clamped to its declared range [0, INT_MAX] by the host. *)
PolylineSize(start_frame, end_frame) ==
    1 + (IF end_frame - start_frame < 0 THEN 0 ELSE end_frame - start_frame)

(* The branch of the sampling loop taken at one frame: the position, or a skip. *)
SamplePosition(os, call, frame) ==
    LET obj == os[call.obj]
        world_matrix == matrix_world(os, call.obj, frame)
    IN  IF Truthy(call.is_empty)
        THEN [skip |-> FALSE, position |-> world_matrix.t]
        ELSE IF Truthy(call.is_vertex)
        THEN IF obj.type = "MESH"
             THEN [skip |-> FALSE,
                   position |-> MatMul(world_matrix, VertexCo(call.is_vertex.n))]
             ELSE [skip |-> TRUE, position |-> Origin]
        ELSE IF Truthy(call.is_bone)
        THEN IF obj.type = "ARMATURE"
             THEN [skip |-> FALSE, position |-> MatMul(world_matrix, BoneHead(frame))]
             ELSE [skip |-> TRUE, position |-> Origin]
        ELSE [skip |-> FALSE, position |-> world_matrix.t]

(* Faulty variant: the copy keeps the template's mesh data. *)
SphereInstanceSharedData(os, base, position, curve) ==
    [os[base] EXCEPT !.location = position, !.parent = curve, !.in_scene = TRUE]

(* base_sphere.copy() with its own copy of the mesh data, placed and parented. *)
SphereInstance(os, base, position, curve) ==
    [os[base] EXCEPT
        !.data = NewData(os),
        !.location = position,
        !.parent = curve,
        !.in_scene = TRUE]

(* One iteration of the loop of create_motion_path.  frame_set moves the
   cursor; the host then reports the object's type for that frame. *)
SampleFrame(sc, call, frame) ==
    LET s1 == [sc EXCEPT !.cursor = frame,
                         !.objs[call.obj].type = call.hostType[frame],
                         !.visited = Append(@, frame)]
        smp == SamplePosition(s1.objs, call, s1.cursor)
        p == smp.position
        os2 == [s1.objs EXCEPT
                   ![call.curve].points[frame - call.start + 1] = <<p[1], p[2], p[3], 1>>]
        id == NewId(os2)
    IN  IF smp.skip
        THEN [s1 EXCEPT !.skipped = @ \cup {frame}]
        ELSE [s1 EXCEPT
                 !.objs = Put(os2, id, SphereInstance(os2, call.base, p, call.curve)),
                 !.markers = Append(@, id)]

RECURSIVE FrameLoop(_, _, _)
FrameLoop(sc, call, frame) ==
    IF frame > call.end
    THEN sc
    ELSE FrameLoop(SampleFrame(sc, call, frame), call, frame + 1)

create_motion_path(os, cur, obj, start_frame, end_frame, is_vertex, is_bone, is_empty, hostType) ==
    LET b == create_base_icosphere(os, RadiusDefault, icosphere_color)
        curve == NewId(b.objs)
        curve_object ==
            [Obj("CURVE", NewData(b.objs)) EXCEPT
                !.path = TRUE,
                !.points = [i \in 1..PolylineSize(start_frame, end_frame) |-> DefaultPoint]]
        call == [obj |-> obj, start |-> start_frame, end |-> end_frame,
                 is_vertex |-> is_vertex, is_bone |-> is_bone, is_empty |-> is_empty,
                 hostType |-> hostType, base |-> b.base, curve |-> curve]
        sc0 == [objs |-> Put(b.objs, curve, curve_object), cursor |-> cur,
                markers |-> <<>>, skipped |-> {}, visited |-> <<>>]
        sc1 == FrameLoop(sc0, call, start_frame)
    IN  [sc1 EXCEPT !.objs[b.base].hide = TRUE] @@ [base |-> b.base, curve |-> curve]

-----------------------------------------------------------------------------
(* update_icospheres: every tagged object of the scene gets the radius as its
   uniform scale. *)

(* Faulty variant: the parentless template is left out. *)
update_icospheres_instances_only(os, radius) ==
    [o \in DOMAIN os |->
        IF os[o].in_scene /\ IsSphere(os, o) /\ os[o].parent # NoObject
        THEN [os[o] EXCEPT !.scale = <<radius, radius, radius>>]
        ELSE os[o]]

update_icospheres(os, radius) ==
    [o \in DOMAIN os |->
        IF os[o].in_scene /\ IsSphere(os, o)
        THEN [os[o] EXCEPT !.scale = <<radius, radius, radius>>]
        ELSE os[o]]

-----------------------------------------------------------------------------
(* CleanUpOperator.execute: collect, delete the icospheres, delete the curves. *)

icospheres_to_delete(os) == Spheres(os)

(* Faulty variant: every tagged path is collected, with or without markers. *)
curves_to_delete_all_paths(os) == Paths(os)

curves_to_delete(os) ==
    {os[o].parent : o \in {s \in Spheres(os) :
        os[s].parent # NoObject /\ os[s].parent \in DOMAIN os /\ os[os[s].parent].path}}

(* Faulty variant: removal while the objects are being scanned, so that every
   second tagged object is skipped. *)
clean_up_while_scanning(os) ==
    LET ico == {o \in Spheres(os) : Cardinality({q \in Spheres(os) : q < o}) % 2 = 0}
        cur == {os[o].parent : o \in {s \in ico : os[s].parent # NoObject}}
        os1 == RemoveObjects(os, ico)
        os2 == RemoveObjects(os1, cur)
    IN  [objs |-> os2, removed |-> <<ico, cur>>]

clean_up(os) ==
    LET ico == icospheres_to_delete(os)
        cur == curves_to_delete(os)
        os1 == RemoveObjects(os, ico)
        still == {c \in cur : c \in DOMAIN os1}
        os2 == RemoveObjects(os1, still)
    IN  [objs |-> os2, removed |-> <<ico, still>>]

-----------------------------------------------------------------------------
(* What the last call did (history, read by the properties only). *)

NoLast ==
    [op |-> "init", status |-> "NONE", obj |-> NoObject,
     start |-> 0, end |-> 0, vertex |-> -1, lowest |-> -1, base |-> NoObject,
     curve |-> NoObject, markers |-> <<>>, visited |-> <<>>, skipped |-> {},
     created |-> {}, removed |-> <<{}, {}>>, radius |-> 0,
     again |-> FALSE, before |-> 0, calls |-> 0]

NumRemoved(l) == Cardinality(l.removed[1]) + Cardinality(l.removed[2])

Tagged(os) == Spheres(os) \cup Paths(os)

(* The active object the context can hold.  The model lets the user make none
   or one of their own objects active before a call; in edit mode it is an
   object that has an edit mode. *)
ActiveChoices ==
    IF mode = "EDIT"
    THEN {o \in UserObjects : objs[o].type \in {"MESH", "CURVE", "ARMATURE"}}
    ELSE UserObjects \cup {NoObject}

(* The type the host reports for the object at each frame of the run: an
   object keeps its type. *)
StableType(a) == [f \in Frames |-> IF a = NoObject THEN "NONE" ELSE objs[a].type]

(* set_viewport_shading_to_object_color: solid shading, coloured per object. *)
set_viewport_shading_to_object_color == [type |-> "SOLID", color_type |-> "OBJECT"]

(* The branch of an entry point that resolves the range and samples. *)
Accept(op, a, ctx, is_vertex, is_bone, is_empty, hostType, selected, mode2) ==
    LET r == get_frame_range(ctx)
        res == create_motion_path(objs, cursor, a, r[1], r[2],
                                  is_vertex, is_bone, is_empty, hostType)
    IN  /\ objs' = res.objs
        /\ cursor' = res.cursor
        /\ mode' = mode2
        /\ shading' = set_viewport_shading_to_object_color
        /\ last' = [NoLast EXCEPT
                !.op = op, !.status = "INFO", !.obj = a,
                !.start = r[1], !.end = r[2],
                !.vertex = IF is_vertex.t = "int" THEN is_vertex.n ELSE -1,
                !.lowest = IF selected = {} THEN -1
                           ELSE CHOOSE v \in selected : \A w \in selected : v <= w,
                !.base = res.base, !.curve = res.curve, !.markers = res.markers,
                !.visited = res.visited, !.skipped = res.skipped,
                !.created = DOMAIN res.objs \ DOMAIN objs]
        /\ runs' = IF runs >= 0 THEN runs + 1 ELSE runs

(* The branch that reports an error. *)
Reject(mode2) ==
    /\ objs' = objs
    /\ cursor' = cursor
    /\ mode' = mode2
    /\ shading' = set_viewport_shading_to_object_color
    /\ last' = [NoLast EXCEPT !.op = "rejected", !.status = "ERROR"]
    /\ runs' = runs

(* selected_verts: the selected vertices in index order. *)
RECURSIVE selected_verts(_)
selected_verts(sel) ==
    IF sel = {}
    THEN <<>>
    ELSE LET v == CHOOSE x \in sel : \A y \in sel : x <= y
         IN  <<v>> \o selected_verts(sel \ {v})

(* bpy.ops.object.mode_set.poll() at the start of the vertex operator: it
   passes for the mesh the user is working on. *)
mode_set_poll == TRUE

(* The selection tests of the four entry points. *)
BoneSelected(a, hasBone) == a # NoObject /\ objs[a].type = "ARMATURE" /\ hasBone
MeshSelected(a) == a # NoObject /\ objs[a].type = "MESH"
EmptySelected(a) == a # NoObject /\ objs[a].type = "EMPTY"
ObjectSelected(a) == a # NoObject /\ objs[a].type \in {"MESH", "CURVE", "SURFACE", "FONT"}

(* context.active_pose_bone is set only while an armature is active. *)
BoneChoices(a) ==
    IF a # NoObject /\ objs[a].type = "ARMATURE" THEN BOOLEAN ELSE {FALSE}

(* A mesh primitive added while the host is in edit mode is merged into the
   edited mesh by the host instead of becoming a new object; the calls that
   reach create_base_icosphere are taken with the host out of edit mode. *)
CanSample == mode # "EDIT" /\ Cardinality(Paths(objs)) < MaxPaths

BonePathWith(a, hostType) ==
    /\ BoneSelected(a, TRUE)
    /\ CanSample
    /\ \E ctx \in RangeInputs :
            Accept("bone", a, ctx, PyBool(FALSE), PyStr("Bone"), PyBool(FALSE),
                   hostType, {}, mode)

VertexPathWith(a, hostType) ==
    /\ MeshSelected(a)
    /\ Cardinality(Paths(objs)) < MaxPaths
    /\ \E sel \in SUBSET Verts \ {{}}, ctx \in RangeInputs, poll2 \in BOOLEAN :
            LET mode1 == IF mode_set_poll THEN "OBJECT" ELSE mode
            IN  Accept("vertex", a, ctx, PyInt(selected_verts(sel)[1]),
                       PyBool(FALSE), PyBool(FALSE), hostType, sel,
                       IF poll2 THEN "EDIT" ELSE mode1)

BonePath ==
    \/ \E a \in ActiveChoices : BonePathWith(a, StableType(a))
    \/ /\ {a \in ActiveChoices : \E hasBone \in BoneChoices(a) : ~BoneSelected(a, hasBone)} # {}
       /\ Reject(mode)

VertexPath ==
    \/ \E a \in ActiveChoices : VertexPathWith(a, StableType(a))
    \/ /\ {a \in ActiveChoices : MeshSelected(a)} # {}
       /\ Reject(IF mode_set_poll THEN "OBJECT" ELSE mode)
    \/ /\ {a \in ActiveChoices : ~MeshSelected(a)} # {}
       /\ Reject(mode)

EmptyPath ==
    \/ \E a \in ActiveChoices :
        /\ EmptySelected(a)
        /\ CanSample
        /\ \E ctx \in RangeInputs :
                Accept("empty", a, ctx, PyStr("location"), PyBool(FALSE), PyBool(TRUE),
                       StableType(a), {}, mode)
    \/ /\ {a \in ActiveChoices : ~EmptySelected(a)} # {}
       /\ Reject(mode)

ObjectPath ==
    \/ \E a \in ActiveChoices :
        /\ ObjectSelected(a)
        /\ CanSample
        /\ \E ctx \in RangeInputs :
                Accept("object", a, ctx, PyBool(FALSE), PyBool(FALSE), PyBool(FALSE),
                       StableType(a), {}, mode)
    \/ /\ {a \in ActiveChoices : ~ObjectSelected(a)} # {}
       /\ Reject(mode)

CleanUp ==
    LET res == clean_up(objs)
    IN  /\ objs' = res.objs
        /\ last' = [NoLast EXCEPT !.op = "cleanup", !.status = "INFO",
                                  !.removed = res.removed,
                                  !.again = (last.op = "cleanup"),
                                  !.before = IF last.op = "cleanup" THEN NumRemoved(last) ELSE 0,
                                  !.calls = runs]
        /\ runs' = IF Tagged(res.objs) = {} THEN 0 ELSE -1
        /\ UNCHANGED <<cursor, mode, shading>>

UpdateIcospheres ==
    \E radius \in Radii :
        /\ objs' = update_icospheres(objs, radius)
        /\ last' = [NoLast EXCEPT !.op = "rescale", !.radius = radius]
        /\ UNCHANGED <<cursor, mode, shading, runs>>

(* The user enters or leaves edit mode (the host's object.mode_set). *)
UserModeSet ==
    /\ mode' = IF mode = "EDIT" THEN "OBJECT" ELSE "EDIT"
    /\ last' = [NoLast EXCEPT !.op = "mode_set"]
    /\ UNCHANGED <<objs, cursor, shading, runs>>

Init ==
    /\ objs = [o \in UserObjects |->
                 Obj(CASE o = Cube -> "MESH" [] o = Empty -> "EMPTY" [] o = Armature -> "ARMATURE", o)]
    /\ cursor = FrameMin
    /\ mode = "OBJECT"
    /\ shading = [type |-> "SOLID", color_type |-> "MATERIAL"]
    /\ last = NoLast
    /\ runs = 0

Next ==
    \/ BonePath
    \/ VertexPath
    \/ EmptyPath
    \/ ObjectPath
    \/ CleanUp
    \/ UpdateIcospheres
    \/ UserModeSet

Spec == Init /\ [][Next]_vars

-----------------------------------------------------------------------------
(* The loop of create_motion_path reads obj.type again at every frame, after
   frame_set has run the host's frame-change handlers.  In the specification
   below the host may report another type at any frame of a bone or vertex run
   (a handler that converts the object); the change stays with the object. *)

HostTypes(a) ==
    IF a = NoObject THEN {StableType(a)} ELSE [Frames -> {objs[a].type, "CURVE"}]

BonePathHost ==
    \/ \E a \in ActiveChoices : \E hostType \in HostTypes(a) : BonePathWith(a, hostType)
    \/ /\ {a \in ActiveChoices : \E hasBone \in BoneChoices(a) : ~BoneSelected(a, hasBone)} # {}
       /\ Reject(mode)

VertexPathHost ==
    \/ \E a \in ActiveChoices : \E hostType \in HostTypes(a) : VertexPathWith(a, hostType)
    \/ /\ {a \in ActiveChoices : MeshSelected(a)} # {}
       /\ Reject(IF mode_set_poll THEN "OBJECT" ELSE mode)
    \/ /\ {a \in ActiveChoices : ~MeshSelected(a)} # {}
       /\ Reject(mode)

NextHost ==
    \/ BonePathHost
    \/ VertexPathHost
    \/ EmptyPath
    \/ ObjectPath
    \/ CleanUp
    \/ UpdateIcospheres
    \/ UserModeSet

SpecHost == Init /\ [][NextHost]_vars

-----------------------------------------------------------------------------
(* Properties. *)

SamplingOps == {"bone", "vertex", "empty", "object"}

Sampled == last.op \in SamplingOps /\ last.status = "INFO"

FrameCount == last.end - last.start + 1

Point(v) == <<v[1], v[2], v[3], 1>>

Range(seq) == {seq[i] : i \in 1..Len(seq)}

(* C1: an Object-path or Empty-path call over a range with start <= end makes
   exactly one path, whose polyline has end-start+1 control points, and exactly
   end-start+1 marker instances besides the template; the frames are visited in
   increasing order and control point i and marker i hold the object's world
   translation at frame start+i. *)
C1_ObjectEmptyPath ==
    (Sampled /\ last.op \in {"object", "empty"} /\ last.start <= last.end) =>
        /\ {o \in last.created : objs[o].path} = {last.curve}
        /\ {o \in last.created : objs[o].sphere} = Range(last.markers) \cup {last.base}
        /\ last.base \notin Range(last.markers)
        /\ Cardinality(Range(last.markers)) = FrameCount
        /\ Cardinality(last.created) = FrameCount + 2
        /\ Len(last.markers) = FrameCount
        /\ Len(objs[last.curve].points) = FrameCount
        /\ last.visited = [i \in 1..FrameCount |-> last.start + i - 1]
        /\ \A i \in 1..FrameCount :
              LET t == AnimatedTranslation(last.obj, last.start + i - 1)
              IN  /\ objs[last.curve].points[i] = Point(t)
                  /\ objs[last.markers[i]].location = t
                  /\ objs[last.markers[i]].parent = last.curve

C1_Witness ==
    /\ Sampled /\ last.op = "object" /\ last.start < last.end
    /\ Len(last.markers) = FrameCount
    /\ objs[last.markers[FrameCount]].location = AnimatedTranslation(Cube, last.end)

(* C2: a sampling call whose selection does not match reports an error, adds
   no object and leaves the objects, the frame cursor and the interaction mode
   as they were. *)
C2_RejectedLeavesScene ==
    [][last'.status = "ERROR" => (objs' = objs /\ cursor' = cursor /\ mode' = mode)]_vars

(* C3: after a successful sampling call the path carries the path tag and the
   template and every marker carry the marker tag; a clean-up after N successful
   calls made from a scene without tagged objects removes exactly N paths and
   leaves no tagged object. *)
C3_TagsAndFullCleanup ==
    /\ Sampled =>
          /\ objs[last.curve].path
          /\ \A o \in last.created \ {last.curve} : objs[o].sphere
    /\ (last.op = "cleanup" /\ last.calls >= 0) =>
          /\ Cardinality(last.removed[2]) = last.calls
          /\ Tagged(objs) = {}

(* C4: a clean-up that directly follows a clean-up removes nothing and leaves
   the scene as it was; on a scene with nothing tagged clean-up changes nothing
   and still succeeds. *)
C4_CleanupIdempotent ==
    [][/\ (last.op = "cleanup" /\ last'.op = "cleanup") =>
            (NumRemoved(last') = 0 /\ objs' = objs /\ cursor' = cursor /\ mode' = mode
             /\ shading' = shading)
       /\ (last'.op = "cleanup" /\ Tagged(objs) = {}) =>
            (NumRemoved(last') = 0 /\ objs' = objs /\ last'.status = "INFO")]_vars

C4_Witness ==
    /\ last.op = "cleanup" /\ last.again /\ last.before >= 3
    /\ NumRemoved(last) = 0
    /\ Spheres(objs) = {}

(* C5: the update handler with radius r sets the scale of every tagged marker
   to (r, r, r) and changes nothing else; run again with the same r it changes
   nothing. *)
C5_RescaleOnlyScale ==
    [][/\ last'.op = "rescale" =>
            /\ DOMAIN objs' = DOMAIN objs
            /\ \A o \in DOMAIN objs :
                  objs'[o] = IF objs[o].sphere
                             THEN [objs[o] EXCEPT
                                     !.scale = <<last'.radius, last'.radius, last'.radius>>]
                             ELSE objs[o]
            /\ cursor' = cursor /\ mode' = mode /\ shading' = shading
       /\ (last.op = "rescale" /\ last'.op = "rescale" /\ last'.radius = last.radius) =>
            objs' = objs]_vars

C5_Witness ==
    /\ last.op = "rescale" /\ last.radius # Unit
    /\ \E t \in Spheres(objs), i \in Spheres(objs) :
          /\ objs[t].parent = NoObject /\ objs[i].parent # NoObject
          /\ objs[i].location # Origin
    /\ \A o \in Spheres(objs) : objs[o].scale = <<last.radius, last.radius, last.radius>>
    /\ \A o \in DOMAIN objs \ Spheres(objs) : objs[o].scale = <<Unit, Unit, Unit>>

(* C6: a sampling call whose resolved range has start > end is rejected before
   any sampling: it reports a failure, does not move the frame cursor and adds
   no template, path or marker. *)
C6_InvertedRangeRejected ==
    [][(last'.op \in SamplingOps /\ last'.start > last'.end) =>
            (last'.status = "ERROR" /\ cursor' = cursor /\ objs' = objs)]_vars

(* C7: a vertex-path call samples the first selected vertex v, and for every
   frame of the range the control point and the marker hold world_matrix
   applied to the local position of vertex v, for every v >= 0. *)
C7_VertexPositions ==
    (Sampled /\ last.op = "vertex" /\ last.start <= last.end /\ last.skipped = {}) =>
        /\ last.vertex = last.lowest
        /\ Len(last.markers) = FrameCount
        /\ \A i \in 1..FrameCount :
              LET M == [s |-> objs[last.obj].scale[1],
                        t |-> AnimatedTranslation(last.obj, last.start + i - 1)]
                  q == MatMul(M, VertexCo(last.lowest))
              IN  /\ objs[last.curve].points[i] = Point(q)
                  /\ objs[last.markers[i]].location = q

(* C8: a bone or vertex run in which k frames are skipped does not fail, makes
   no marker for a skipped frame, and leaves a polyline of end-start+1-k control
   points, none of them at the default origin value. *)
C8_SkippedFramesLeaveNoPoint ==
    (Sampled /\ last.op \in {"bone", "vertex"} /\ last.start <= last.end) =>
        LET k == Cardinality(last.skipped)
        IN  /\ Len(last.markers) = FrameCount - k
            /\ Len(objs[last.curve].points) = FrameCount - k
            /\ \A i \in 1..Len(objs[last.curve].points) :
                  objs[last.curve].points[i] # DefaultPoint

(* C9: clean-up removes the tagged markers and the tagged paths that are the
   parent of a tagged marker, and nothing else; every other object stays as it
   was; the markers are removed before the paths. *)
C9_CleanupRemovesExactly ==
    [][last'.op = "cleanup" =>
          LET markers == {o \in DOMAIN objs : objs[o].sphere}
              paths == {o \in DOMAIN objs :
                          objs[o].path /\ \E m \in markers : objs[m].parent = o}
          IN  /\ DOMAIN objs' = DOMAIN objs \ (markers \cup paths)
              /\ \A o \in DOMAIN objs' : objs'[o] = objs[o]
              /\ last'.removed = <<markers, paths>>
              /\ cursor' = cursor /\ mode' = mode /\ shading' = shading]_vars

C9_Witness ==
    /\ last.op = "cleanup"
    /\ last.removed[1] # {}
    /\ Paths(objs) # {}
    /\ UserObjects \subseteq DOMAIN objs

(* C10: every tagged marker is a parentless (hidden) template or an instance
   whose parent is in the scene and carries the path tag; no two markers share
   a mesh data block. *)
C10_MarkerParents ==
    /\ \A o \in Spheres(objs) :
          \/ objs[o].parent = NoObject /\ objs[o].hide
          \/ /\ objs[o].parent # NoObject
             /\ objs[o].parent \in DOMAIN objs
             /\ objs[objs[o].parent].path
    /\ \A o \in Spheres(objs), q \in Spheres(objs) :
          o # q => objs[o].data # objs[q].data

C10_Witness ==
    /\ Cardinality({o \in Spheres(objs) : objs[o].parent # NoObject}) >= 2
    /\ \E o \in Spheres(objs) : objs[o].parent = NoObject

====
